---------------------------- MODULE Spec2Model ----------------------------
(***************************************************************************)
(* A model of rfc3986/validators.py: the Validator rule builder, its       *)
(* validate() method and the free validation functions.                    *)
(*                                                                         *)
(* Python values are represented as follows.                               *)
(*   str    a tuple of one-character strings, "http" is <<"h","t","t","p">> *)
(*   None   the tuple <<"None">>; its single element is not one character,  *)
(*          so it differs from every str                                    *)
(*   int    an integer                                                      *)
(*   the objects a predicate returns (True, False, None, a re match        *)
(*          object) are the strings "True", "False", "None", "Match"        *)
(*   an exception is a record [type, args]; type "None" means no exception  *)
(***************************************************************************)
EXTENDS Integers, Sequences, FiniteSets, TLC

VARIABLES
    self,         \* the Validator instance (its five attributes)
    call,         \* the last call made: [op, args]
    raised,       \* the exception the last call raised, NoExc if it returned
    result,       \* the object the last free-function call returned
    prev,         \* history: the Validator as it was before the last call
    ports_given,  \* history: every port string passed to allow_ports so far
    seen          \* history: per watched URI, the outcomes of validate and the number of
                  \* validate calls (counted up to two) since the last configuration call

vars == <<self, call, raised, result, prev, ports_given, seen>>

(***************************************************************************)
(* Bounds of the model.                                                    *)
(***************************************************************************)
MaxArgs == 2      \* most positional arguments of one configuration call

(***************************************************************************)
(* Characters and strings.                                                 *)
(***************************************************************************)
None == <<"None">>

\* The printable ASCII characters in code-point order, starting at 32 (the
\* grave accent, which a TLA+ string cannot hold, is spelled out).
Ascii == <<" ", "!", "\"", "#", "$", "%", "&", "'", "(", ")", "*", "+", ",",
           "-", ".", "/", "0", "1", "2", "3", "4", "5", "6", "7", "8", "9",
           ":", ";", "<", "=", ">", "?", "@", "A", "B", "C", "D", "E", "F",
           "G", "H", "I", "J", "K", "L", "M", "N", "O", "P", "Q", "R", "S",
           "T", "U", "V", "W", "X", "Y", "Z", "[", "\\", "]", "^", "_", "grave",
           "a", "b", "c", "d", "e", "f", "g", "h", "i", "j", "k", "l", "m",
           "n", "o", "p", "q", "r", "s", "t", "u", "v", "w", "x", "y", "z",
           "{", "|", "}", "~">>

OrdTable == [c \in {Ascii[i] : i \in 1..Len(Ascii)} |->
                31 + (CHOOSE i \in 1..Len(Ascii) : Ascii[i] = c)]

ord(c) == OrdTable[c]

chr(n) == Ascii[n - 31]

IsDigit(c) == ord(c) >= 48 /\ ord(c) <= 57

IsAlpha(c) == \/ (ord(c) >= 65 /\ ord(c) <= 90)
              \/ (ord(c) >= 97 /\ ord(c) <= 122)

\* str.lower(): every upper-case letter becomes its lower-case letter.
lower(s) == [i \in 1..Len(s) |->
                IF ord(s[i]) >= 65 /\ ord(s[i]) <= 90 THEN chr(ord(s[i]) + 32) ELSE s[i]]

\* s < t in Python's ordering of str (lexicographic by code point).
StrLess(s, t) ==
    \E k \in 1..(Len(t)) :
        /\ \A j \in 1..(k - 1) : j <= Len(s) /\ s[j] = t[j]
        /\ k - 1 <= Len(s)
        /\ (k = Len(s) + 1 \/ ord(s[k]) < ord(t[k]))

\* sorted(list) for a list of str: insertion sort, stable.
RECURSIVE sorted(_)
sorted(xs) ==
    IF xs = <<>> THEN <<>>
    ELSE LET rest == sorted(Tail(xs))
             x    == Head(xs)
             n    == Cardinality({i \in 1..Len(rest) : StrLess(rest[i], x)})
         IN  SubSeq(rest, 1, n) \o <<x>> \o SubSeq(rest, n + 1, Len(rest))

\* str.split(sep, maxsplit); maxsplit = -1 means no limit.
RECURSIVE split(_, _, _)
split(s, sep, maxsplit) ==
    IF maxsplit = 0 \/ ~(\E i \in 1..Len(s) : s[i] = sep) THEN <<s>>
    ELSE LET i == CHOOSE k \in 1..Len(s) :
                      s[k] = sep /\ \A j \in 1..(k - 1) : s[j] # sep
         IN  <<SubSeq(s, 1, i - 1)>> \o split(SubSeq(s, i + 1, Len(s)), sep, maxsplit - 1)

\* str.strip() as int() applies it: leading and trailing blanks removed.
RECURSIVE strip(_)
strip(s) ==
    IF s # <<>> /\ Head(s) = " " THEN strip(Tail(s))
    ELSE IF s # <<>> /\ s[Len(s)] = " " THEN strip(SubSeq(s, 1, Len(s) - 1))
    ELSE s

\* The digits of an int literal: digits, with single underscores between digits.
IsDigits(d) ==
    /\ d # <<>>
    /\ \A i \in 1..Len(d) : IsDigit(d[i]) \/ d[i] = "_"
    /\ IsDigit(d[1]) /\ IsDigit(d[Len(d)])
    /\ \A i \in 1..(Len(d) - 1) : ~(d[i] = "_" /\ d[i + 1] = "_")

Unsigned(s) == IF s # <<>> /\ s[1] \in {"+", "-"} THEN Tail(s) ELSE s

\* int(s, base=10) returns (does not raise ValueError).
int_ok(s) == IsDigits(Unsigned(strip(s)))

RECURSIVE DigitsValue(_)
DigitsValue(d) ==
    IF d = <<>> THEN 0
    ELSE IF d[Len(d)] = "_" THEN DigitsValue(SubSeq(d, 1, Len(d) - 1))
    ELSE 10 * DigitsValue(SubSeq(d, 1, Len(d) - 1)) + (ord(d[Len(d)]) - 48)

\* int(s, base=10) where it returns.
int(s) ==
    LET t == strip(s)
    IN  IF t[1] = "-" THEN 0 - DigitsValue(Unsigned(t)) ELSE DigitsValue(Unsigned(t))

(***************************************************************************)
(* Exceptions and returned objects.                                        *)
(***************************************************************************)
NoExc == [type |-> "None", args |-> <<>>]

Exc(type, args) == [type |-> type, args |-> args]

PyBool(b) == IF b THEN "True" ELSE "False"

\* bool(x) for the objects a predicate returns.
Truthy(x) == x \in {"True", "Match"}

\* x and y / x or y: Python returns one of its operands.
PyAnd(x, y) == IF Truthy(x) THEN y ELSE x

PyOr(x, y) == IF Truthy(x) THEN x ELSE y

(***************************************************************************)
(* The strings the model uses.                                             *)
(***************************************************************************)
s_scheme   == <<"s", "c", "h", "e", "m", "e">>
s_userinfo == <<"u", "s", "e", "r", "i", "n", "f", "o">>
s_host     == <<"h", "o", "s", "t">>
s_port     == <<"p", "o", "r", "t">>
s_path     == <<"p", "a", "t", "h">>
s_query    == <<"q", "u", "e", "r", "y">>
s_fragment == <<"f", "r", "a", "g", "m", "e", "n", "t">>

(***************************************************************************)
(* class Validator                                                         *)
(***************************************************************************)
COMPONENT_NAMES ==
    {s_scheme, s_userinfo, s_host, s_port, s_path, s_query, s_fragment}

\* The order in which __init__ inserts the keys of require_presence_of,
\* which is the order in which the dict is iterated.
require_presence_of_order ==
    <<s_scheme, s_userinfo, s_host, s_port, s_path, s_query, s_fragment>>

\* Validator.__init__
Validator_init ==
    [allowed_schemes     |-> {},
     allowed_hosts       |-> {},
     allowed_ports       |-> {},
     allow_password      |-> TRUE,
     require_presence_of |-> [c \in COMPONENT_NAMES |-> FALSE]]

\* normalizers.normalize_scheme and normalizers.normalize_host: case folding.
normalize_scheme(scheme) == lower(scheme)

normalize_host(host) == lower(host)

\* allow_schemes with the bug of replacing the set instead of adding to it.
allow_schemes_replacing(v, schemes) ==
    [self   |-> [v EXCEPT !.allowed_schemes =
                    {normalize_scheme(schemes[i]) : i \in 1..Len(schemes)}],
     raised |-> NoExc]

\* Validator.allow_schemes
allow_schemes(v, schemes) ==
    [self   |-> [v EXCEPT !.allowed_schemes =
                    @ \cup {normalize_scheme(schemes[i]) : i \in 1..Len(schemes)}],
     raised |-> NoExc]

\* Validator.allow_hosts
allow_hosts(v, hosts) ==
    [self   |-> [v EXCEPT !.allowed_hosts =
                    @ \cup {normalize_host(hosts[i]) : i \in 1..Len(hosts)}],
     raised |-> NoExc]

\* allow_ports with the bug of an upper limit that is one too large.
RECURSIVE allow_ports_off_by_one(_, _)
allow_ports_off_by_one(v, ports) ==
    IF ports = <<>> THEN [self |-> v, raised |-> NoExc]
    ELSE IF ~int_ok(Head(ports))
         THEN [self |-> v, raised |-> Exc("ValueError", <<Head(ports)>>)]
    ELSE LET port_int == int(Head(ports))
         IN  allow_ports_off_by_one(IF 0 <= port_int /\ port_int <= 65536
                                    THEN [v EXCEPT !.allowed_ports = @ \cup {port_int}]
                                    ELSE v,
                                    Tail(ports))

\* Validator.allow_ports: the loop, one port per step; int() may raise after
\* earlier ports of the same call were added.
RECURSIVE allow_ports(_, _)
allow_ports(v, ports) ==
    IF ports = <<>> THEN [self |-> v, raised |-> NoExc]
    ELSE IF ~int_ok(Head(ports))
         THEN [self |-> v, raised |-> Exc("ValueError", <<Head(ports)>>)]
    ELSE LET port_int == int(Head(ports))
         IN  allow_ports(IF 0 <= port_int /\ port_int <= 65535
                         THEN [v EXCEPT !.allowed_ports = @ \cup {port_int}]
                         ELSE v,
                         Tail(ports))

\* Validator.allow_use_of_password
allow_use_of_password(v) ==
    [self |-> [v EXCEPT !.allow_password = TRUE], raised |-> NoExc]

\* Validator.forbid_use_of_password
forbid_use_of_password(v) ==
    [self |-> [v EXCEPT !.allow_password = FALSE], raised |-> NoExc]

\* dict.update({k: True for k in keys})
dict_update_true(d, keys) ==
    [k \in (DOMAIN d) \cup keys |-> IF k \in keys THEN TRUE ELSE d[k]]

\* require_components with the bug of checking and setting in one loop, so
\* that the names before an invalid one are already set when it raises.
RECURSIVE require_components_one_loop(_, _)
require_components_one_loop(v, components) ==
    IF components = <<>> THEN [self |-> v, raised |-> NoExc]
    ELSE LET component == lower(Head(components))
         IN  IF component \notin COMPONENT_NAMES
             THEN [self |-> v, raised |-> Exc("ValueError", <<component>>)]
             ELSE require_components_one_loop(
                      [v EXCEPT !.require_presence_of = dict_update_true(@, {component})],
                      Tail(components))

\* Validator.require_components
require_components(v, components) ==
    LET lowered == [i \in 1..Len(components) |-> lower(components[i])]
        invalid == {i \in 1..Len(lowered) : lowered[i] \notin COMPONENT_NAMES}
    IN  IF invalid # {}
        THEN LET first == CHOOSE i \in invalid : \A j \in invalid : i <= j
             IN  [self |-> v, raised |-> Exc("ValueError", <<lowered[first]>>)]
        ELSE [self   |-> [v EXCEPT !.require_presence_of =
                             dict_update_true(@, {lowered[i] : i \in 1..Len(lowered)})],
              raised |-> NoExc]

\* check_password: the exception it raises, NoExc when it returns.
check_password(uri) ==
    LET userinfo == uri[s_userinfo]
    IN  IF userinfo = None \/ userinfo = <<>> THEN NoExc
        ELSE LET credentials == split(userinfo, ":", 1)
             IN  IF Len(credentials) <= 1 THEN NoExc
                 ELSE Exc("PasswordForbidden", <<uri>>)

\* ensure_required_components_exist with the bug of not sorting the names.
ensure_required_components_exist_unsorted(uri, required_components) ==
    LET IsMissing(component) == uri[component] = None
        missing_components == SelectSeq(required_components, IsMissing)
    IN  IF missing_components # <<>>
        THEN Exc("MissingComponentError", <<uri>> \o missing_components)
        ELSE NoExc

\* ensure_required_components_exist: the exception it raises, NoExc when it returns.
ensure_required_components_exist(uri, required_components) ==
    LET IsMissing(component) == uri[component] = None
        missing_components == sorted(SelectSeq(required_components, IsMissing))
    IN  IF missing_components # <<>>
        THEN Exc("MissingComponentError", <<uri>> \o missing_components)
        ELSE NoExc

\* The keys of a dict in iteration order (keys added after __init__ come last).
RECURSIVE SetToSeq(_)
SetToSeq(S) ==
    IF S = {} THEN <<>>
    ELSE LET x == CHOOSE y \in S : TRUE IN <<x>> \o SetToSeq(S \ {x})

dict_keys(d) ==
    LET InDict(k) == k \in DOMAIN d
    IN  SelectSeq(require_presence_of_order, InDict)
          \o SetToSeq((DOMAIN d) \ COMPONENT_NAMES)

\* validate with the bug of consuming the password rule: once it has raised
\* PasswordForbidden, passwords are allowed again.
validate_consuming(v, uri) ==
    LET pw == IF ~v.allow_password THEN check_password(uri) ELSE NoExc
        IsRequired(component) == v.require_presence_of[component]
        required_components == SelectSeq(dict_keys(v.require_presence_of), IsRequired)
    IN  IF pw # NoExc THEN [self |-> [v EXCEPT !.allow_password = TRUE], raised |-> pw]
        ELSE IF required_components # <<>>
             THEN [self   |-> v,
                   raised |-> ensure_required_components_exist(uri, required_components)]
        ELSE [self |-> v, raised |-> NoExc]

\* Validator.validate
validate(v, uri) ==
    LET pw == IF ~v.allow_password THEN check_password(uri) ELSE NoExc
        IsRequired(component) == v.require_presence_of[component]
        required_components == SelectSeq(dict_keys(v.require_presence_of), IsRequired)
    IN  IF pw # NoExc THEN [self |-> v, raised |-> pw]
        ELSE IF required_components # <<>>
             THEN [self   |-> v,
                   raised |-> ensure_required_components_exist(uri, required_components)]
        ELSE [self |-> v, raised |-> NoExc]

(***************************************************************************)
(* misc: the grammar matchers (RFC 3986 ABNF), anchored at both ends.      *)
(***************************************************************************)
IsHex(c) == IsDigit(c) \/ c \in {"a", "b", "c", "d", "e", "f", "A", "B", "C", "D", "E", "F"}

Unreserved(c) == IsAlpha(c) \/ IsDigit(c) \/ c \in {"-", ".", "_", "~"}

SubDelim(c) == c \in {"!", "$", "&", "'", "(", ")", "*", "+", ",", ";", "="}

\* Every character of s is unreserved, a sub-delimiter, one of extra, or
\* starts a percent-encoded octet.
CharsOk(s, extra) ==
    \A i \in 1..Len(s) :
        \/ Unreserved(s[i]) \/ SubDelim(s[i]) \/ s[i] \in extra
        \/ (s[i] = "%" /\ i + 2 <= Len(s) /\ IsHex(s[i + 1]) /\ IsHex(s[i + 2]))

SchemeMatches(s) ==
    /\ s # <<>>
    /\ IsAlpha(s[1])
    /\ \A i \in 1..Len(s) : IsAlpha(s[i]) \/ IsDigit(s[i]) \/ s[i] \in {"+", "-", "."}

PathMatches(s) == CharsOk(s, {":", "@", "/"})

QueryMatches(s) == CharsOk(s, {":", "@", "/", "?"})

FragmentMatches(s) == CharsOk(s, {":", "@", "/", "?"})

\* The loose IPv4 shape: four dot-separated groups of one to three digits.
IPv4Matches(s) ==
    LET parts == split(s, ".", -1)
    IN  /\ Len(parts) = 4
        /\ \A i \in 1..4 : /\ Len(parts[i]) \in 1..3
                           /\ \A j \in 1..Len(parts[i]) : IsDigit(parts[i][j])

AllDigits(s) == \A i \in 1..Len(s) : IsDigit(s[i])

\* host [":" port], the host a bracketed IP literal or a registered name
\* (which covers the IPv4 shape).
HostPortMatches(s) ==
    IF s # <<>> /\ s[1] = "["
    THEN \E k \in 2..Len(s) :
            /\ s[k] = "]"
            /\ k > 2
            /\ \A j \in 2..(k - 1) : IsHex(s[j]) \/ s[j] \in {":", "."}
            /\ \/ k = Len(s)
               \/ (s[k + 1] = ":" /\ AllDigits(SubSeq(s, k + 2, Len(s))))
    ELSE LET hp == split(s, ":", 1)
         IN  /\ CharsOk(hp[1], {})
             /\ (Len(hp) = 2 => AllDigits(hp[2]))

\* [userinfo "@"] host [":" port]
SubauthorityMatches(s) ==
    LET ua == split(s, "@", 1)
    IN  IF Len(ua) = 2
        THEN CharsOk(ua[1], {":"}) /\ HostPortMatches(ua[2])
        ELSE HostPortMatches(s)

\* matcher.match(value): a match object or None.
Match(matcher, value) ==
    IF value = None THEN "TypeError"
    ELSE LET m == CASE matcher = "SCHEME_MATCHER"       -> SchemeMatches(value)
                    [] matcher = "SUBAUTHORITY_MATCHER" -> SubauthorityMatches(value)
                    [] matcher = "PATH_MATCHER"         -> PathMatches(value)
                    [] matcher = "QUERY_MATCHER"        -> QueryMatches(value)
                    [] matcher = "FRAGMENT_MATCHER"     -> FragmentMatches(value)
                    [] matcher = "IPv4_MATCHER"         -> IPv4Matches(value)
         IN  IF m THEN "Match" ELSE "None"

(***************************************************************************)
(* The free validation functions.  A function that raises ValueError       *)
(* yields RaiseValueError in place of a returned object.                   *)
(***************************************************************************)
RaiseValueError == "raise ValueError"

\* is_valid with the bug of ignoring require.
is_valid_ignoring_require(value, matcher, require) ==
    PyOr(PyBool(value = None), Match(matcher, value))

\* is_valid
is_valid(value, matcher, require) ==
    IF require
    THEN PyAnd(PyBool(value # None), Match(matcher, value))
    ELSE PyOr(PyBool(value = None), Match(matcher, value))

\* valid_ipv4_host_address
valid_ipv4_host_address(host) ==
    LET bytes == split(host, ".", -1)
    IN  IF \E i \in 1..Len(bytes) : ~int_ok(bytes[i]) THEN RaiseValueError
        ELSE PyBool(\A i \in 1..Len(bytes) : 0 <= int(bytes[i]) /\ int(bytes[i]) <= 255)

\* authority_is_valid with the bug of leaving out the IPv4 byte-range check.
authority_is_valid_grammar_only(authority, host, require) ==
    is_valid(authority, "SUBAUTHORITY_MATCHER", require)

\* authority_is_valid
authority_is_valid(authority, host, require) ==
    LET validated == is_valid(authority, "SUBAUTHORITY_MATCHER", require)
    IN  IF Truthy(validated) /\ host # None /\ Truthy(Match("IPv4_MATCHER", host))
        THEN valid_ipv4_host_address(host)
        ELSE validated

scheme_is_valid(scheme, require) == is_valid(scheme, "SCHEME_MATCHER", require)

path_is_valid(path, require) == is_valid(path, "PATH_MATCHER", require)

query_is_valid(query, require) == is_valid(query, "QUERY_MATCHER", require)

fragment_is_valid(fragment, require) == is_valid(fragment, "FRAGMENT_MATCHER", require)

(***************************************************************************)
(* The inputs the model draws from.                                        *)
(***************************************************************************)
t_http        == <<"h", "t", "t", "p">>
t_HTTPS       == <<"H", "T", "T", "P", "S">>
t_https       == <<"h", "t", "t", "p", "s">>
t_ftp         == <<"f", "t", "p">>
t_Example_COM == <<"E", "x", "a", "m", "p", "l", "e", ".", "C", "O", "M">>
t_example_com == <<"e", "x", "a", "m", "p", "l", "e", ".", "c", "o", "m">>
t_evil_org    == <<"e", "v", "i", "l", ".", "o", "r", "g">>
t_HOST        == <<"H", "O", "S", "T">>
t_bogus       == <<"b", "o", "g", "u", "s">>
t_0           == <<"0">>
t_80          == <<"8", "0">>
t_8080        == <<"8", "0", "8", "0">>
t_65535       == <<"6", "5", "5", "3", "5">>
t_65536       == <<"6", "5", "5", "3", "6">>
t_99999       == <<"9", "9", "9", "9", "9">>
t_minus1      == <<"-", "1">>
t_8o          == <<"8", "o">>
t_empty       == <<>>
t_user        == <<"u", "s", "e", "r">>
t_user_colon  == <<"u", "s", "e", "r", ":">>
t_user_pass   == <<"u", "s", "e", "r", ":", "p", "a", "s", "s">>
t_colon       == <<":">>
t_a_b_c       == <<"a", ":", "b", ":", "c">>
t_slash       == <<"/">>

t_1http           == <<"1", "h", "t", "t", "p">>
t_a_plus_b        == <<"a", "+", "b">>
t_a_b_path        == <<"/", "a", "/", "b">>
t_a_space_b       == <<"a", " ", "b">>
t_pct_zz          == <<"%", "z", "z">>
t_pct_41          == <<"%", "4", "1">>
t_a_q_b           == <<"a", "?", "b">>
t_a_hash_b        == <<"a", "#", "b">>
t_user_at_host_80 == <<"u", "s", "e", "r", "@", "h", "o", "s", "t", ":", "8", "0">>
t_v6              == <<"[", ":", ":", "1", "]", ":", "8", "0">>
t_192_168_1_1     == <<"1", "9", "2", ".", "1", "6", "8", ".", "1", ".", "1">>
t_999_1_1_1       == <<"9", "9", "9", ".", "1", ".", "1", ".", "1">>
t_1_2_3           == <<"1", ".", "2", ".", "3">>
t_1_2_3_4_5       == <<"1", ".", "2", ".", "3", ".", "4", ".", "5">>
t_a_b_c_d         == <<"a", ".", "b", ".", "c", ".", "d">>
t_1__2_3          == <<"1", ".", ".", "2", ".", "3">>
t_0_0_0_0         == <<"0", ".", "0", ".", "0", ".", "0">>
t_255_255_255_255 == <<"2", "5", "5", ".", "2", "5", "5", ".", "2", "5", "5", ".", "2", "5", "5">>
t_256_1_1_1       == <<"2", "5", "6", ".", "1", ".", "1", ".", "1">>
t_1_2_3_minus4    == <<"1", ".", "2", ".", "3", ".", "-", "4">>
t_01_02_03_004    == <<"0", "1", ".", "0", "2", ".", "0", "3", ".", "0", "0", "4">>
t_1_2_3_1000      == <<"1", ".", "2", ".", "3", ".", "1", "0", "0", "0">>

\* All argument lists of at most MaxArgs elements of S.
ArgLists(S) == UNION {[1..n -> S] : n \in 0..MaxArgs}

\* The arguments of the configuration calls made between validations.
SchemeArgs == {t_HTTPS}

HostArgs == {t_Example_COM}

PortArgs == {t_80}

ComponentArgs == {s_scheme, t_HOST, s_path}

\* The arguments of the configuration calls when only the Validator is configured.
SchemeNames == {t_http, t_HTTPS}

HostNames == {t_Example_COM}

PortNames == {t_80, t_8o}

ComponentNames == {s_scheme, t_HOST, t_bogus}

\* The port strings when only allow_ports is called: both ends of the range,
\* the first value beyond each end, and values well inside and outside.
PortStrings == {t_0, t_80, t_65535, t_65536, t_99999, t_minus1}

\* A parsed URI: one value (None or a str) per component.
URI(scheme, userinfo, host, port, path) ==
    [c \in COMPONENT_NAMES |->
        CASE c = s_scheme   -> scheme
          [] c = s_userinfo -> userinfo
          [] c = s_host     -> host
          [] c = s_port     -> port
          [] c = s_path     -> path
          [] OTHER          -> None]

\* Every pattern of present and absent scheme, host and path.
PresenceURIs ==
    {URI(sc, None, h, None, p) :
        sc \in {None, t_http}, h \in {None, t_example_com}, p \in {None, t_slash}}

\* Every shape of userinfo.
UserinfoURIs ==
    {URI(t_https, u, t_example_com, None, p) :
        u \in {None, t_empty, t_user, t_user_colon, t_user_pass, t_colon, t_a_b_c},
        p \in {None, t_slash}}

\* Values inside and outside the allow-lists.
AllowListURIs ==
    {URI(sc, None, h, p, t_slash) :
        sc \in {t_http, t_ftp}, h \in {t_example_com, t_evil_org}, p \in {t_80, t_8080}}

URIs == PresenceURIs \cup UserinfoURIs \cup AllowListURIs

\* The URIs whose validate outcomes the history variable seen records.
WatchedURIs == {URI(t_https, t_user_pass, t_example_com, None, None),
                URI(t_http, None, None, None, t_slash)}

Unseen == [outcomes |-> {}, calls |-> 0]

NoReturn == "NoReturn"

(***************************************************************************)
(* The state machine of one Validator.                                     *)
(***************************************************************************)
Init ==
    /\ self = Validator_init
    /\ call = [op |-> "__init__", args |-> <<>>]
    /\ raised = NoExc
    /\ result = "None"
    /\ prev = Validator_init
    /\ ports_given = {}
    /\ seen = [u \in WatchedURIs |-> Unseen]

\* A configuration method is called: r is what it yields.
Configure(op, args, r) ==
    /\ self' = r.self
    /\ prev' = self
    /\ raised' = r.raised
    /\ result' = IF r.raised.type = "None" THEN "self" ELSE NoReturn
    /\ call' = [op |-> op, args |-> args]
    /\ seen' = [u \in WatchedURIs |-> Unseen]

AllowSchemes(schemes) ==
    /\ Configure("allow_schemes", schemes, allow_schemes(self, schemes))
    /\ UNCHANGED ports_given

AllowHosts(hosts) ==
    /\ Configure("allow_hosts", hosts, allow_hosts(self, hosts))
    /\ UNCHANGED ports_given

AllowPorts(ports) ==
    /\ Configure("allow_ports", ports, allow_ports(self, ports))
    /\ ports_given' = ports_given \cup {ports[i] : i \in 1..Len(ports)}

AllowUseOfPassword ==
    /\ Configure("allow_use_of_password", <<>>, allow_use_of_password(self))
    /\ UNCHANGED ports_given

ForbidUseOfPassword ==
    /\ Configure("forbid_use_of_password", <<>>, forbid_use_of_password(self))
    /\ UNCHANGED ports_given

RequireComponents(components) ==
    /\ Configure("require_components", components, require_components(self, components))
    /\ UNCHANGED ports_given

Validate(uri) ==
    LET r == validate(self, uri)
    IN  /\ self' = r.self
        /\ prev' = self
        /\ raised' = r.raised
        /\ result' = IF r.raised.type = "None" THEN "None" ELSE NoReturn
        /\ call' = [op |-> "validate", args |-> <<uri>>]
        /\ seen' = IF uri \in WatchedURIs
                   THEN [seen EXCEPT ![uri] =
                            [outcomes |-> @.outcomes \cup {r.raised},
                             calls    |-> IF @.calls < 2 THEN @.calls + 1 ELSE @.calls]]
                   ELSE seen
        /\ UNCHANGED ports_given

Next ==
    \/ \E schemes \in ArgLists(SchemeArgs) : AllowSchemes(schemes)
    \/ \E hosts \in ArgLists(HostArgs) : AllowHosts(hosts)
    \/ \E ports \in ArgLists(PortArgs) : AllowPorts(ports)
    \/ AllowUseOfPassword
    \/ ForbidUseOfPassword
    \/ \E components \in ArgLists(ComponentArgs) : RequireComponents(components)
    \/ \E uri \in URIs : Validate(uri)

Spec == Init /\ [][Next]_vars

\* A Validator that is only configured.
NextConfig ==
    \/ \E schemes \in ArgLists(SchemeNames) : AllowSchemes(schemes)
    \/ \E hosts \in ArgLists(HostNames) : AllowHosts(hosts)
    \/ \E ports \in ArgLists(PortNames) : AllowPorts(ports)
    \/ AllowUseOfPassword
    \/ ForbidUseOfPassword
    \/ \E components \in ArgLists(ComponentNames) : RequireComponents(components)

SpecConfig == Init /\ [][NextConfig]_vars

\* A fresh Validator on which only allow_ports is called.
NextPorts == \E ports \in ArgLists(PortStrings) : AllowPorts(ports)

SpecPorts == Init /\ [][NextPorts]_vars

(***************************************************************************)
(* Calls of the free validation functions.                                 *)
(***************************************************************************)
\* The values given to the *_is_valid functions.
Values == {None, t_empty, t_http, t_1http, t_a_plus_b, t_a_b_path, t_a_space_b,
           t_pct_zz, t_pct_41, t_a_q_b, t_a_hash_b}

Matchers == {"SCHEME_MATCHER", "SUBAUTHORITY_MATCHER", "PATH_MATCHER",
             "QUERY_MATCHER", "FRAGMENT_MATCHER"}

Authorities == {None, t_example_com, t_user_at_host_80, t_v6, t_a_space_b,
                t_192_168_1_1, t_999_1_1_1, t_1_2_3}

AuthorityHosts == {None, t_example_com, t_a_space_b, t_192_168_1_1, t_999_1_1_1,
                   t_256_1_1_1, t_1_2_3, t_01_02_03_004, t_1_2_3_1000}

IPv4Hosts == {t_192_168_1_1, t_999_1_1_1, t_1_2_3, t_1_2_3_4_5, t_a_b_c_d,
              t_1__2_3, t_0_0_0_0, t_255_255_255_255, t_256_1_1_1,
              t_1_2_3_minus4, t_01_02_03_004, t_1_2_3_1000, t_empty, t_80,
              t_example_com}

\* A free function is called with args and yields r.
Apply(op, args, r) ==
    /\ call' = [op |-> op, args |-> args]
    /\ result' = IF r = RaiseValueError THEN NoReturn ELSE r
    /\ raised' = IF r = RaiseValueError THEN Exc("ValueError", <<>>) ELSE NoExc
    /\ UNCHANGED <<self, prev, ports_given, seen>>

IsValid(value, matcher, require) ==
    Apply("is_valid", <<value, matcher, require>>, is_valid(value, matcher, require))

AuthorityIsValid(authority, host, require) ==
    Apply("authority_is_valid", <<authority, host, require>>,
          authority_is_valid(authority, host, require))

SchemeIsValid(scheme, require) ==
    Apply("scheme_is_valid", <<scheme, require>>, scheme_is_valid(scheme, require))

PathIsValid(path, require) ==
    Apply("path_is_valid", <<path, require>>, path_is_valid(path, require))

QueryIsValid(query, require) ==
    Apply("query_is_valid", <<query, require>>, query_is_valid(query, require))

FragmentIsValid(fragment, require) ==
    Apply("fragment_is_valid", <<fragment, require>>, fragment_is_valid(fragment, require))

ValidIpv4HostAddress(host) ==
    Apply("valid_ipv4_host_address", <<host>>, valid_ipv4_host_address(host))

NextFn ==
    \/ \E value \in Values, matcher \in Matchers, require \in BOOLEAN :
          IsValid(value, matcher, require)
    \/ \E authority \in Authorities, host \in AuthorityHosts, require \in BOOLEAN :
          AuthorityIsValid(authority, host, require)
    \/ \E scheme \in Values, require \in BOOLEAN : SchemeIsValid(scheme, require)
    \/ \E path \in Values, require \in BOOLEAN : PathIsValid(path, require)
    \/ \E query \in Values, require \in BOOLEAN : QueryIsValid(query, require)
    \/ \E fragment \in Values, require \in BOOLEAN : FragmentIsValid(fragment, require)
    \/ \E host \in IPv4Hosts : ValidIpv4HostAddress(host)

SpecFn == Init /\ [][NextFn]_vars

(***************************************************************************)
(* Properties of validate.                                                 *)
(***************************************************************************)
\* The URI of the last call, which is a validate call.
LastURI == call.args[1]

\* The component names in ascending alphabetical order.
Alphabetical ==
    <<s_fragment, s_host, s_path, s_port, s_query, s_scheme, s_userinfo>>

\* The components the Validator requires and the last URI lacks.
RequiredAndAbsent ==
    {c \in COMPONENT_NAMES : prev.require_presence_of[c] /\ LastURI[c] = None}

\* The names a MissingComponentError carries after the URI.
MissingNames == Tail(raised.args)

\* C1: unless the password check failed first, validate(uri) raises one
\* MissingComponentError carrying the URI and all required-and-absent component
\* names in ascending alphabetical order when there is at least one, and raises
\* no MissingComponentError when there is none; requiring scheme, host and path
\* on a URI with only a scheme reports host, path.
C1_MissingComponents ==
    call.op = "validate" =>
        /\ (RequiredAndAbsent # {} /\ raised.type # "PasswordForbidden") =>
              /\ raised.type = "MissingComponentError"
              /\ raised.args[1] = LastURI
              /\ LET InAbsent(c) == c \in RequiredAndAbsent
                 IN  MissingNames = SelectSeq(Alphabetical, InAbsent)
        /\ RequiredAndAbsent = {} => raised.type # "MissingComponentError"
        /\ ( /\ {c \in COMPONENT_NAMES : prev.require_presence_of[c]}
                  = {s_scheme, s_host, s_path}
             /\ {c \in COMPONENT_NAMES : LastURI[c] # None} = {s_scheme}
             /\ prev.allow_password )
           => MissingNames = <<s_host, s_path>>

\* C1 witness: several required components are absent and reported together.
C1_Witness ==
    /\ call.op = "validate"
    /\ raised.type = "MissingComponentError"
    /\ MissingNames = <<s_host, s_scheme>>
    /\ LastURI[s_path] # None
    /\ prev.require_presence_of[s_path]

\* The userinfo of the last URI holds a ':' with something after the first ':'.
HasNonEmptyPassword ==
    LET userinfo == LastURI[s_userinfo]
    IN  /\ userinfo # None
        /\ \E i \in 1..Len(userinfo) :
              /\ userinfo[i] = ":"
              /\ \A j \in 1..(i - 1) : userinfo[j] # ":"
              /\ i < Len(userinfo)

\* C2: with allow_password false, validate(uri) raises PasswordForbidden if
\* and only if the userinfo is present, holds a ':' and the part after the first
\* ':' is non-empty; with allow_password true it never raises PasswordForbidden.
C2_PasswordForbiddenIffNonEmptyPassword ==
    call.op = "validate" =>
        /\ ~prev.allow_password =>
              (raised.type = "PasswordForbidden" <=> HasNonEmptyPassword)
        /\ prev.allow_password => raised.type # "PasswordForbidden"

\* The last URI has a scheme, host or port outside a non-empty allow-list.
UnpermittedComponents ==
    {c \in {s_scheme, s_host, s_port} :
        /\ LastURI[c] # None
        /\ \/ /\ c = s_scheme
              /\ prev.allowed_schemes # {}
              /\ normalize_scheme(LastURI[c]) \notin prev.allowed_schemes
           \/ /\ c = s_host
              /\ prev.allowed_hosts # {}
              /\ normalize_host(LastURI[c]) \notin prev.allowed_hosts
           \/ /\ c = s_port
              /\ prev.allowed_ports # {}
              /\ int(LastURI[c]) \notin prev.allowed_ports}

\* C3: when the scheme, host or port of the URI is not in its non-empty
\* allow-list, validate(uri) fails, and unless another check failed first it
\* fails with UnpermittedComponentError.
C3_UnpermittedComponent ==
    (call.op = "validate" /\ UnpermittedComponents # {}) =>
        /\ raised.type # "None"
        /\ raised.type \notin {"PasswordForbidden", "MissingComponentError"}
              => raised.type = "UnpermittedComponentError"

\* C9: validate(uri) leaves the Validator as it was, whether it returns or
\* raises, and between two configuration calls every validate call on the same
\* URI has the same outcome, whatever other URIs were validated in between.
C9_ValidateIsPure ==
    /\ call.op = "validate" => self = prev
    /\ \A u \in WatchedURIs : Cardinality(seen[u].outcomes) <= 1

\* C9 witness: a URI validated twice, raising, with another URI validated as well.
C9_Witness ==
    /\ call.op = "validate"
    /\ LastURI \in WatchedURIs
    /\ raised.type = "PasswordForbidden"
    /\ seen[LastURI].calls = 2
    /\ \A u \in WatchedURIs : seen[u].calls >= 1

(***************************************************************************)
(* Properties of the configuration methods.                                *)
(***************************************************************************)
\* The number each port string of the model denotes.
PortNumber ==
    [p \in PortStrings |->
        CASE p = t_0      -> 0
          [] p = t_80     -> 80
          [] p = t_65535  -> 65535
          [] p = t_65536  -> 65536
          [] p = t_99999  -> 99999
          [] p = t_minus1 -> 0 - 1]

\* C4: after any sequence of allow_ports calls on a fresh Validator with
\* integer strings, allowed_ports is exactly the set of the argument values in
\* [0, 65535] over all calls; an out-of-range value raises nothing, is not added
\* and does not keep the in-range values of its call from being added.
C4_AllowedPortsAreTheInRangeArguments ==
    /\ raised = NoExc
    /\ self.allowed_ports =
          {n \in {PortNumber[p] : p \in ports_given} : 0 <= n /\ n <= 65535}
    /\ self.allowed_ports \subseteq 0..65535
    /\ ports_given = {t_80, t_65535, t_99999} => self.allowed_ports = {80, 65535}

\* C4 witness: one call passes an out-of-range port before an in-range one.
C4_Witness ==
    /\ call.op = "allow_ports"
    /\ call.args = <<t_99999, t_80>>
    /\ prev.allowed_ports = {65535}
    /\ self.allowed_ports = {80, 65535}
    /\ raised = NoExc

\* The names of the last call, a require_components call, lower-cased.
NamedComponents == {lower(call.args[i]) : i \in 1..Len(call.args)}

\* C5: require_components with a name that, lower-cased, is not one of the 7
\* component names raises ValueError in that call and leaves
\* require_presence_of as it was, wherever the invalid name stands; with valid
\* names only, exactly the named flags become true.  The keys of
\* require_presence_of are always the 7 component names.
C5_RequireComponents ==
    /\ DOMAIN self.require_presence_of = COMPONENT_NAMES
    /\ call.op = "require_components" =>
          IF NamedComponents \subseteq COMPONENT_NAMES
          THEN /\ raised = NoExc
               /\ \A c \in COMPONENT_NAMES :
                     self.require_presence_of[c]
                        <=> (prev.require_presence_of[c] \/ c \in NamedComponents)
          ELSE /\ raised.type = "ValueError"
               /\ self.require_presence_of = prev.require_presence_of

\* C5 witness: a valid name precedes the invalid one in a rejected call.
C5_Witness ==
    /\ call.op = "require_components"
    /\ call.args = <<s_scheme, t_bogus>>
    /\ raised.type = "ValueError"
    /\ ~self.require_presence_of[s_scheme]

\* A successful configuration call, applied to the Validator v.
ApplyCall(c, v) ==
    CASE c.op = "allow_schemes"          -> allow_schemes(v, c.args)
      [] c.op = "allow_hosts"            -> allow_hosts(v, c.args)
      [] c.op = "allow_ports"            -> allow_ports(v, c.args)
      [] c.op = "allow_use_of_password"  -> allow_use_of_password(v)
      [] c.op = "forbid_use_of_password" -> forbid_use_of_password(v)
      [] c.op = "require_components"     -> require_components(v, c.args)

\* The configuration calls of the model.
ConfigCalls ==
    {[op |-> "allow_schemes", args |-> a] : a \in ArgLists(SchemeNames)}
      \cup {[op |-> "allow_hosts", args |-> a] : a \in ArgLists(HostNames)}
      \cup {[op |-> "allow_ports", args |-> a] : a \in ArgLists(PortNames)}
      \cup {[op |-> "allow_use_of_password", args |-> <<>>],
            [op |-> "forbid_use_of_password", args |-> <<>>]}
      \cup {[op |-> "require_components", args |-> a] : a \in ArgLists(ComponentNames)}

\* The last call, which succeeded, and the call c of another method, which
\* succeeds too, give the same Validator in either order.
CommutesWithLast(c) ==
    (c.op # call.op /\ ApplyCall(c, self).raised = NoExc) =>
        ApplyCall(c, self).self = ApplyCall(call, ApplyCall(c, prev).self).self

\* The last call removed nothing from the allow-lists and cleared no flag.
OnlyAdded ==
    /\ prev.allowed_schemes \subseteq self.allowed_schemes
    /\ prev.allowed_hosts \subseteq self.allowed_hosts
    /\ prev.allowed_ports \subseteq self.allowed_ports
    /\ \A c \in COMPONENT_NAMES :
          prev.require_presence_of[c] => self.require_presence_of[c]

PasswordMethods == {"allow_use_of_password", "forbid_use_of_password"}

\* C10 as stated: two successful calls of any two different configuration
\* methods give the same configuration in either order, and calls only add to
\* the allow-lists and the required flags.
C10_AnyTwoMethodsCommute ==
    (call.op # "__init__" /\ raised = NoExc) =>
        /\ \A c \in ConfigCalls : CommutesWithLast(c)
        /\ OnlyAdded

\* C10 amended: the same for any two different configuration methods other
\* than the pair allow_use_of_password and forbid_use_of_password, of which the
\* later call decides allow_password.
C10_MethodsCommuteExceptPasswordPair ==
    (call.op # "__init__" /\ raised = NoExc) =>
        /\ \A c \in ConfigCalls :
              ~(c.op \in PasswordMethods /\ call.op \in PasswordMethods)
                 => CommutesWithLast(c)
        /\ OnlyAdded

\* C10 witness: a second allow_schemes call adds to what the first one and
\* calls of other methods configured.
C10_Witness ==
    /\ call.op = "allow_schemes"
    /\ prev.allowed_schemes = {t_http}
    /\ self.allowed_schemes = {t_http, t_https}
    /\ self.allowed_ports # {}
    /\ self.require_presence_of[s_host]
    /\ ~self.allow_password

(***************************************************************************)
(* Properties of the free validation functions.                            *)
(***************************************************************************)
\* The parts of host are four base-10 integers in [0, 255].
FourBytes(host) ==
    LET parts == split(host, ".", -1)
    IN  /\ Len(parts) = 4
        /\ \A i \in 1..4 :
              /\ int_ok(parts[i])
              /\ 0 <= int(parts[i]) /\ int(parts[i]) <= 255

\* C6: valid_ipv4_host_address(host) is true if and only if host splits on '.'
\* into exactly 4 parts, each a base-10 integer in [0, 255].
C6_Ipv4IffFourBytes ==
    call.op = "valid_ipv4_host_address" =>
        (result = "True" <=> FourBytes(call.args[1]))

\* The value v is present and the matcher named m matches all of it.
Matches(v, m) == v # None /\ Match(m, v) = "Match"

\* The boolean the generic rule gives for a value, a matcher and require.
Rule(v, m, require) ==
    \/ (require /\ Matches(v, m))
    \/ (~require /\ (v = None \/ Matches(v, m)))

SpecialisedFunctions ==
    {"scheme_is_valid", "path_is_valid", "query_is_valid", "fragment_is_valid"}

\* The last call is authority_is_valid(None, host, require).
AbsentAuthorityCall == call.op = "authority_is_valid" /\ call.args[1] = None

\* C7 as stated: is_valid is truthy exactly by the generic rule, and the
\* five *_is_valid functions return True for an absent value with require
\* false and a falsy object for an absent value with require true.
C7_AbsentValueAlwaysValidUnlessRequired ==
    /\ call.op = "is_valid" =>
          (Truthy(result) <=> Rule(call.args[1], call.args[2], call.args[3]))
    /\ (call.op \in SpecialisedFunctions /\ call.args[1] = None) =>
          IF call.args[2] THEN ~Truthy(result) ELSE result = "True"
    /\ AbsentAuthorityCall =>
          IF call.args[3] THEN ~Truthy(result) ELSE result = "True"

\* C7 amended: the same, except that authority_is_valid with an absent
\* authority, require false and a host of IPv4 shape returns
\* valid_ipv4_host_address(host), which is False for a byte outside [0, 255].
C7_AbsentValueValidUnlessRequiredOrIpv4Host ==
    /\ call.op = "is_valid" =>
          (Truthy(result) <=> Rule(call.args[1], call.args[2], call.args[3]))
    /\ (call.op \in SpecialisedFunctions /\ call.args[1] = None) =>
          IF call.args[2] THEN ~Truthy(result) ELSE result = "True"
    /\ AbsentAuthorityCall =>
          IF call.args[3] THEN ~Truthy(result)
          ELSE IF Matches(call.args[2], "IPv4_MATCHER")
               THEN result = PyBool(FourBytes(call.args[2]))
               ELSE result = "True"

\* C7 witness: a required value is absent and the result is falsy.
C7_Witness ==
    /\ call.op = "is_valid"
    /\ call.args = <<None, "QUERY_MATCHER", TRUE>>
    /\ result = "False"

\* C8: authority_is_valid returns what is_valid gives for the subauthority
\* matcher, except that when that is truthy and a host of IPv4 shape is given
\* it returns valid_ipv4_host_address(host); authority and host "999.1.1.1" are
\* invalid, and a failed grammar check is never made a success by the host.
C8_AuthorityRechecksIpv4Host ==
    call.op = "authority_is_valid" =>
        LET authority == call.args[1]
            host      == call.args[2]
            require   == call.args[3]
            grammar   == Rule(authority, "SUBAUTHORITY_MATCHER", require)
        IN  /\ IF grammar /\ Matches(host, "IPv4_MATCHER")
               THEN result = PyBool(FourBytes(host))
               ELSE /\ result = is_valid(authority, "SUBAUTHORITY_MATCHER", require)
                    /\ Truthy(result) <=> grammar
            /\ ~grammar => ~Truthy(result)
            /\ (authority = t_999_1_1_1 /\ host = t_999_1_1_1) => result = "False"

\* C8 witness: the grammar accepts the authority and the byte check rejects the host.
C8_Witness ==
    /\ call.op = "authority_is_valid"
    /\ call.args = <<t_999_1_1_1, t_999_1_1_1, FALSE>>
    /\ result = "False"

=============================================================================
